---- MODULE Spec2Model ----
(***************************************************************************)
(* A model of app.py, the CLV prediction dashboard.                        *)
(*                                                                         *)
(* Three specifications share the variables:                               *)
(*   Spec      the script as Streamlit runs it, top to bottom, once per    *)
(*             run (lines 60-131), over every content of cdnow.csv within  *)
(*             the bounds, with reruns that keep the st.cache_data entry.  *)
(*             Line 29 raises NameError in every run that loads the file,  *)
(*             so no run of Spec gets past prepare_lifetimes_data.         *)
(*   SpecBody  the part of the script that consumes a summary table        *)
(*             (train_clv_models, lines 39-48, and lines 64-117), applied  *)
(*             to every summary table within the bounds.                   *)
(*   SpecSegment  the selection and the segmentation rule (lines 92-117),  *)
(*             applied to every scored population within the bounds.       *)
(*                                                                         *)
(* Dates are day numbers, amounts and predicted values are naturals.       *)
(* An unbound Python name and an absent value are the empty tuple <<>>,    *)
(* a bound one is the one-element tuple <<value>>.                         *)
(***************************************************************************)
EXTENDS Integers, Sequences, FiniteSets

VARIABLES
    csv,                     \* what pd.read_csv('cdnow.csv') meets on disk
    store,                   \* the rows of cdnow.csv (customer_id, date, price)
    cache,                   \* the st.cache_data entry of load_local_transaction_data
    run,                     \* number of the current script run
    pc,                      \* position of the script
    transaction_df,          \* line 60
    observation_period_end,  \* line 28
    rfm_df,                  \* line 63
    exception,               \* the exception that ended the run, "none" otherwise
    error_shown,             \* st.error element on the page (line 19)
    prev,                    \* what the previous run left on the page
    ggf_ready_df,            \* line 43
    bgf_model,               \* lines 44-45, 64
    ggf_model,               \* lines 46-47, 64
    clv_forecast,            \* lines 69-78: the predicted_clv_12_months column
    selected_customer,       \* line 93
    recommendation           \* lines 112-117

vars == <<csv, store, cache, run, pc, transaction_df, observation_period_end,
          rfm_df, exception, error_shown, prev, ggf_ready_df, bgf_model,
          ggf_model, clv_forecast, selected_customer, recommendation>>

bodyVars == <<ggf_ready_df, bgf_model, ggf_model, clv_forecast,
              selected_customer, recommendation>>

\* ---------------------------------------------------------------- bounds
MaxCustomerId == 2    \* customer ids in cdnow.csv are 1..MaxCustomerId
MaxDay == 1           \* dates in cdnow.csv are days 0..MaxDay
MaxPrice == 1         \* prices in cdnow.csv are 0..MaxPrice
MaxRecords == 2       \* cdnow.csv holds 1..MaxRecords rows
MaxRuns == 2          \* script runs (the first and the reruns)
MaxRows == 2          \* rows of a summary table given to the script body
MaxCustomers == 5     \* customers of a scored population given to the segmentation
MaxFrequency == 1     \* frequency values of a summary table
MaxMonetary == 1      \* monetary_value values of a summary table
MaxClv == 2           \* predicted values returned by customer_lifetime_value

\* ------------------------------------------------------------ data
CsvStates == {"ok", "FileNotFoundError", "OtherError"}

CsvRows == [customer_id : 1..MaxCustomerId, date : 0..MaxDay, price : 0..MaxPrice]

Stores == UNION {[1..n -> CsvRows] : n \in 1..MaxRecords}

Unbound == <<>>

NoneValue == [kind |-> "None", rows |-> <<>>]

DataFrame(rows) == [kind |-> "df", rows |-> rows]

\* df.rename(columns={'price': 'monetary_value'}, inplace=True)
Rename(rows) ==
    [i \in DOMAIN rows |->
        [customer_id |-> rows[i].customer_id,
         date |-> rows[i].date,
         monetary_value |-> rows[i].price]]

\* pd.read_csv(...) followed by the rename, when the file is read
ReadCsv == DataFrame(Rename(store))

\* df['date'].max()
DateMax(df) ==
    CHOOSE d \in {df.rows[i].date : i \in DOMAIN df.rows} :
        \A i \in DOMAIN df.rows : df.rows[i].date <= d

\* if transaction_df is not None:
IsNotNoneAlways(df) == TRUE

IsNotNone(df) == df # NoneValue

NoPage == [rfm_df |-> Unbound, recommendation |-> Unbound, ended |-> "none"]

\* ---------------------------------------------------------------- Spec
Init ==
    /\ csv \in CsvStates
    /\ store \in Stores
    /\ cache = Unbound
    /\ run = 1
    /\ pc = "load"
    /\ transaction_df = Unbound
    /\ observation_period_end = Unbound
    /\ rfm_df = Unbound
    /\ exception = "none"
    /\ error_shown = FALSE
    /\ prev = NoPage
    /\ ggf_ready_df = Unbound
    /\ bgf_model = Unbound
    /\ ggf_model = Unbound
    /\ clv_forecast = Unbound
    /\ selected_customer = Unbound
    /\ recommendation = Unbound

\* line 60 with a cache entry: st.cache_data returns the stored value and
\* replays the elements the cached call drew (the st.error of line 19)
LoadCached ==
    /\ pc = "load"
    /\ cache # Unbound
    /\ transaction_df' = <<cache[1]>>
    /\ error_shown' = (cache[1] = NoneValue)
    /\ pc' = "check"
    /\ UNCHANGED <<csv, store, cache, run, observation_period_end, rfm_df,
                   exception, prev, bodyVars>>

\* lines 14-17: the file is read, renamed, returned and cached
LoadRead ==
    /\ pc = "load"
    /\ cache = Unbound
    /\ csv = "ok"
    /\ transaction_df' = <<ReadCsv>>
    /\ cache' = <<ReadCsv>>
    /\ pc' = "check"
    /\ UNCHANGED <<csv, store, run, observation_period_end, rfm_df, exception,
                   error_shown, prev, bodyVars>>

\* lines 18-20: FileNotFoundError is caught, reported, None returned and cached
LoadNotFound ==
    /\ pc = "load"
    /\ cache = Unbound
    /\ csv = "FileNotFoundError"
    /\ error_shown' = TRUE
    /\ transaction_df' = <<NoneValue>>
    /\ cache' = <<NoneValue>>
    /\ pc' = "check"
    /\ UNCHANGED <<csv, store, run, observation_period_end, rfm_df, exception,
                   prev, bodyVars>>

\* line 15 raising anything else (PermissionError, EmptyDataError, ParserError,
\* ValueError for a missing 'date' column): no except clause matches, the
\* exception leaves the function and ends the run; nothing is cached
LoadRaise ==
    /\ pc = "load"
    /\ cache = Unbound
    /\ csv = "OtherError"
    /\ exception' = "OtherError"
    /\ pc' = "raised"
    /\ UNCHANGED <<csv, store, cache, run, transaction_df,
                   observation_period_end, rfm_df, error_shown, prev, bodyVars>>

\* line 62
CheckLoaded ==
    /\ pc = "check"
    /\ pc' = IF IsNotNone(transaction_df[1]) THEN "prepare" ELSE "done"
    /\ UNCHANGED <<csv, store, cache, run, transaction_df,
                   observation_period_end, rfm_df, exception, error_shown,
                   prev, bodyVars>>

\* lines 63, 28: prepare_lifetimes_data is entered and takes the maximum date;
\* df['date'] on None raises TypeError
PrepareMax ==
    /\ pc = "prepare"
    /\ IF transaction_df[1].kind = "df"
       THEN /\ observation_period_end' = <<DateMax(transaction_df[1])>>
            /\ pc' = "summary"
            /\ UNCHANGED exception
       ELSE /\ exception' = "TypeError"
            /\ pc' = "raised"
            /\ UNCHANGED observation_period_end
    /\ UNCHANGED <<csv, store, cache, run, transaction_df, rfm_df,
                   error_shown, prev, bodyVars>>

\* lines 29-35: the name summary_data_from_transaction_data is bound by no
\* import (lines 1-5) and no definition of the file, so evaluating it raises
\* NameError; summary_df and rfm_df are never bound and the run ends
PrepareSummary ==
    /\ pc = "summary"
    /\ exception' = "NameError"
    /\ pc' = "raised"
    /\ UNCHANGED <<csv, store, cache, run, transaction_df,
                   observation_period_end, rfm_df, error_shown, prev, bodyVars>>

\* Streamlit runs the script again from the top: the script's names are
\* fresh, the page is redrawn, the st.cache_data entry is kept
Rerun ==
    /\ pc \in {"done", "raised"}
    /\ run < MaxRuns
    /\ run' = run + 1
    /\ prev' = [rfm_df |-> rfm_df, recommendation |-> recommendation,
                ended |-> exception]
    /\ pc' = "load"
    /\ transaction_df' = Unbound
    /\ observation_period_end' = Unbound
    /\ rfm_df' = Unbound
    /\ exception' = "none"
    /\ error_shown' = FALSE
    /\ ggf_ready_df' = Unbound
    /\ bgf_model' = Unbound
    /\ ggf_model' = Unbound
    /\ clv_forecast' = Unbound
    /\ selected_customer' = Unbound
    /\ recommendation' = Unbound
    /\ UNCHANGED <<csv, store, cache>>

Next ==
    \/ LoadCached
    \/ LoadRead
    \/ LoadNotFound
    \/ LoadRaise
    \/ CheckLoaded
    \/ PrepareMax
    \/ PrepareSummary
    \/ Rerun

Spec == Init /\ [][Next]_vars

\* ------------------------------------------------------------ SpecBody
\* A row of a summary table: frequency f repeat purchases, one a day after
\* the first, observed until the last one
SummaryRow(f, m) == [frequency |-> f, recency |-> f, T |-> f, monetary_value |-> m]

SummaryRows == {SummaryRow(f, m) : f \in 0..MaxFrequency, m \in 0..MaxMonetary}

\* summary tables, indexed by customer_id
SummaryTables == UNION {[1..n -> SummaryRows] : n \in 1..MaxRows}

\* summary_df.query("frequency > 0 and monetary_value > 0")
QueryFrequencyOnly(summary_df) ==
    [c \in {d \in DOMAIN summary_df : summary_df[d].frequency > 0} |-> summary_df[c]]

Query(summary_df) ==
    [c \in {d \in DOMAIN summary_df :
                summary_df[d].frequency > 0 /\ summary_df[d].monetary_value > 0}
        |-> summary_df[c]]

\* the columns handed to bgf.fit (line 45)
BgfInput(summary_df) ==
    [c \in DOMAIN summary_df |->
        [frequency |-> summary_df[c].frequency,
         recency |-> summary_df[c].recency,
         T |-> summary_df[c].T]]

\* the columns handed to ggf.fit (line 47)
GgfInput(ready_df) ==
    [c \in DOMAIN ready_df |->
        [frequency |-> ready_df[c].frequency,
         monetary_value |-> ready_df[c].monetary_value]]

\* the rows whose columns are handed to customer_lifetime_value (lines 71-74)
ScoredCustomersReady(df) == DOMAIN Query(df)

ScoredCustomers(df) == DOMAIN df

\* the values of a column in ascending order
RECURSIVE SortValues(_, _)
SortValues(col, S) ==
    IF S = {} THEN <<>>
    ELSE LET c == CHOOSE d \in S : \A e \in S : col[d] <= col[e]
         IN  <<col[c]>> \o SortValues(col, S \ {c})

QuantileHigh5 == 4    \* quantile(0.8), in fifths
QuantileLow5 == 2     \* quantile(0.4), in fifths

\* five times Series.quantile(k / 5), by linear interpolation between the
\* two order statistics around position (n - 1) * k / 5
Quantile5(col, k) ==
    LET x == SortValues(col, DOMAIN col)
        n == Len(x)
        lo == (k * (n - 1)) \div 5
        r == (k * (n - 1)) % 5
        hi == IF lo + 2 <= n THEN lo + 2 ELSE n
    IN  5 * x[lo + 1] + r * (x[hi] - x[lo + 1])

clv_threshold_high(col) == Quantile5(col, QuantileHigh5)

clv_threshold_low(col) == Quantile5(col, QuantileLow5)

\* lines 112-117, the values compared in fifths
RecommendAtLeast(customer_clv, col) ==
    IF 5 * customer_clv >= clv_threshold_high(col) THEN "HIGH"
    ELSE IF 5 * customer_clv > clv_threshold_low(col) THEN "MEDIUM"
    ELSE "LOW"

Recommend(customer_clv, col) ==
    IF 5 * customer_clv > clv_threshold_high(col) THEN "HIGH"
    ELSE IF 5 * customer_clv > clv_threshold_low(col) THEN "MEDIUM"
    ELSE "LOW"

InitBody ==
    /\ csv = "ok"
    /\ store = <<>>
    /\ cache = Unbound
    /\ run = 1
    /\ pc = "train"
    /\ transaction_df = Unbound
    /\ observation_period_end = Unbound
    /\ rfm_df \in {<<t>> : t \in SummaryTables}
    /\ exception = "none"
    /\ error_shown = FALSE
    /\ prev = NoPage
    /\ ggf_ready_df = Unbound
    /\ bgf_model = Unbound
    /\ ggf_model = Unbound
    /\ clv_forecast = Unbound
    /\ selected_customer = Unbound
    /\ recommendation = Unbound

\* lines 64, 39-48: the filter, then the two fits; a fit that raises leaves
\* train_clv_models and the script, and line 64 binds nothing
TrainClvModels ==
    /\ pc = "train"
    /\ ggf_ready_df' = <<Query(rfm_df[1])>>
    /\ \E fitted \in BOOLEAN :
          IF fitted
          THEN /\ bgf_model' = <<[fit_input |-> BgfInput(rfm_df[1])]>>
               /\ ggf_model' = <<[fit_input |-> GgfInput(Query(rfm_df[1]))]>>
               /\ pc' = "score"
               /\ UNCHANGED exception
          ELSE /\ exception' = "FitError"
               /\ pc' = "raised"
               /\ UNCHANGED <<bgf_model, ggf_model>>
    /\ UNCHANGED <<csv, store, cache, run, transaction_df,
                   observation_period_end, rfm_df, error_shown, prev,
                   clv_forecast, selected_customer, recommendation>>

\* lines 69-78: one call scores the rows handed to it, the result is stored
\* as the column predicted_clv_12_months
Score ==
    /\ pc = "score"
    /\ \E f \in [ScoredCustomers(rfm_df[1]) -> 0..MaxClv] : clv_forecast' = <<f>>
    /\ pc' = "select"
    /\ UNCHANGED <<csv, store, cache, run, transaction_df,
                   observation_period_end, rfm_df, exception, error_shown,
                   prev, ggf_ready_df, bgf_model, ggf_model,
                   selected_customer, recommendation>>

\* lines 92-93: the selectbox holds one customer of rfm_df.index, which is
\* the index of its column predicted_clv_12_months
Select ==
    /\ pc = "select"
    /\ \E c \in DOMAIN clv_forecast[1] : selected_customer' = <<c>>
    /\ pc' = "segment"
    /\ UNCHANGED <<csv, store, cache, run, transaction_df,
                   observation_period_end, rfm_df, exception, error_shown,
                   prev, ggf_ready_df, bgf_model, ggf_model, clv_forecast,
                   recommendation>>

\* lines 95-117: the selected customer's predicted value against the two
\* quantiles of the column
Segment ==
    /\ pc = "segment"
    /\ selected_customer # Unbound
    /\ recommendation' =
          <<Recommend(clv_forecast[1][selected_customer[1]], clv_forecast[1])>>
    /\ pc' = "done"
    /\ UNCHANGED <<csv, store, cache, run, transaction_df,
                   observation_period_end, rfm_df, exception, error_shown,
                   prev, ggf_ready_df, bgf_model, ggf_model, clv_forecast,
                   selected_customer>>

NextBody ==
    \/ TrainClvModels
    \/ Score
    \/ Select
    \/ Segment

SpecBody == InitBody /\ [][NextBody]_vars

\* -------------------------------------------------------- SpecSegment
\* scored populations: the column predicted_clv_12_months, by customer_id
Populations == UNION {[1..n -> 0..MaxClv] : n \in 1..MaxCustomers}

InitSegment ==
    /\ csv = "ok"
    /\ store = <<>>
    /\ cache = Unbound
    /\ run = 1
    /\ pc = "select"
    /\ transaction_df = Unbound
    /\ observation_period_end = Unbound
    /\ rfm_df = Unbound
    /\ exception = "none"
    /\ error_shown = FALSE
    /\ prev = NoPage
    /\ ggf_ready_df = Unbound
    /\ bgf_model = Unbound
    /\ ggf_model = Unbound
    /\ clv_forecast \in {<<col>> : col \in Populations}
    /\ selected_customer = Unbound
    /\ recommendation = Unbound

NextSegment ==
    \/ Select
    \/ Segment

SpecSegment == InitSegment /\ [][NextSegment]_vars

\* ------------------------------------------------------------ properties
\* What the properties say about a loaded store
CustomerIds(df) == {df.rows[i].customer_id : i \in DOMAIN df.rows}

RecordsOf(df, c) == {i \in DOMAIN df.rows : df.rows[i].customer_id = c}

\* the chronologically first record of c, ties broken by input order
FirstRecord(df, c) ==
    CHOOSE i \in RecordsOf(df, c) :
        \A j \in RecordsOf(df, c) :
            \/ df.rows[i].date < df.rows[j].date
            \/ (df.rows[i].date = df.rows[j].date /\ i <= j)

FirstDate(df, c) == df.rows[FirstRecord(df, c)].date

LastDate(df, c) ==
    CHOOSE d \in {df.rows[i].date : i \in RecordsOf(df, c)} :
        \A i \in RecordsOf(df, c) : df.rows[i].date <= d

RECURSIVE SumAmounts(_, _)
SumAmounts(df, S) ==
    IF S = {} THEN 0
    ELSE LET i == CHOOSE j \in S : TRUE
         IN  df.rows[i].monetary_value + SumAmounts(df, S \ {i})

\* the call of prepare_lifetimes_data (line 63) has been made and has ended
PrepareEnded ==
    /\ transaction_df # Unbound
    /\ transaction_df[1].kind = "df"
    /\ observation_period_end # Unbound
    /\ pc \in {"raised", "done"}

\* the run is over
RunEnded == pc \in {"raised", "done"}

\* C1: once prepare_lifetimes_data has ended on a non-empty store, rfm_df
\* holds exactly one summary for each distinct customer_id of the store and
\* none for another id, each with T >= recency >= 0 and frequency >= 0.
C1_OneSummaryPerCustomer ==
    PrepareEnded =>
        /\ rfm_df # Unbound
        /\ DOMAIN rfm_df[1] = CustomerIds(transaction_df[1])
        /\ \A c \in DOMAIN rfm_df[1] :
              /\ rfm_df[1][c].T >= rfm_df[1][c].recency
              /\ rfm_df[1][c].recency >= 0
              /\ rfm_df[1][c].frequency >= 0

\* C5: once prepare_lifetimes_data has ended, every customer with at least
\* two records has frequency = number of records - 1 and monetary_value = the
\* mean amount over the records but the chronologically first (stated as
\* monetary_value * frequency = the sum of those amounts).
C5_RepeatFrequencyAndMean ==
    PrepareEnded =>
        \A c \in CustomerIds(transaction_df[1]) :
            LET df == transaction_df[1]
                n == Cardinality(RecordsOf(df, c))
            IN  n >= 2 =>
                  /\ rfm_df # Unbound
                  /\ c \in DOMAIN rfm_df[1]
                  /\ rfm_df[1][c].frequency = n - 1
                  /\ rfm_df[1][c].monetary_value * (n - 1) =
                        SumAmounts(df, RecordsOf(df, c) \ {FirstRecord(df, c)})

\* C6: once prepare_lifetimes_data has ended, every customer with exactly one
\* record has frequency 0, recency 0, monetary_value 0 and
\* T = observation_period_end - the date of that record.
C6_SinglePurchaseSummary ==
    PrepareEnded =>
        \A c \in CustomerIds(transaction_df[1]) :
            LET df == transaction_df[1]
            IN  Cardinality(RecordsOf(df, c)) = 1 =>
                  /\ rfm_df # Unbound
                  /\ c \in DOMAIN rfm_df[1]
                  /\ rfm_df[1][c] =
                        [frequency |-> 0, recency |-> 0,
                         T |-> observation_period_end[1] - FirstDate(df, c),
                         monetary_value |-> 0]

\* C7: once prepare_lifetimes_data has ended, observation_period_end is the
\* maximum date over all records of the store, every customer's T is
\* observation_period_end - the customer's first date, and T > recency for a
\* customer whose last date lies before another customer's.
C7_GlobalObservationEnd ==
    PrepareEnded =>
        LET df == transaction_df[1]
        IN  /\ \A i \in DOMAIN df.rows : df.rows[i].date <= observation_period_end[1]
            /\ \E i \in DOMAIN df.rows : df.rows[i].date = observation_period_end[1]
            /\ \A c \in CustomerIds(df) :
                  /\ rfm_df # Unbound
                  /\ c \in DOMAIN rfm_df[1]
                  /\ rfm_df[1][c].T = observation_period_end[1] - FirstDate(df, c)
                  /\ (\E d \in CustomerIds(df) : LastDate(df, d) > LastDate(df, c))
                        => rfm_df[1][c].T > rfm_df[1][c].recency

\* C8: a second run on the unchanged store ends with the same summary table
\* and the same segment as the first run, and both runs produce them.
C8_RerunSameOutputs ==
    (run = 2 /\ RunEnded /\ transaction_df # Unbound /\ transaction_df[1].kind = "df") =>
        /\ rfm_df # Unbound
        /\ rfm_df = prev.rfm_df
        /\ recommendation # Unbound
        /\ recommendation = prev.recommendation

\* C9: the stages run in the order aggregate, fit, score, segment: a summary
\* table only after observation_period_end, a score only after both fits, a
\* segment only after the scores, none of the two after a failed fit; and a
\* run that loaded a store and met no fit failure ends with all four done.
C9_StagesInOrder ==
    /\ (rfm_df # Unbound /\ transaction_df # Unbound) => observation_period_end # Unbound
    /\ clv_forecast # Unbound =>
          (rfm_df # Unbound /\ bgf_model # Unbound /\ ggf_model # Unbound)
    /\ recommendation # Unbound => clv_forecast # Unbound
    /\ exception = "FitError" => (clv_forecast = Unbound /\ recommendation = Unbound)
    /\ (RunEnded /\ transaction_df # Unbound /\ transaction_df[1].kind = "df"
            /\ exception # "FitError") =>
          /\ rfm_df # Unbound
          /\ bgf_model # Unbound
          /\ ggf_model # Unbound
          /\ clv_forecast # Unbound
          /\ recommendation # Unbound

\* what later stages leave behind
NoLaterStage ==
    /\ observation_period_end = Unbound
    /\ rfm_df = Unbound
    /\ ggf_ready_df = Unbound
    /\ bgf_model = Unbound
    /\ ggf_model = Unbound
    /\ clv_forecast = Unbound
    /\ selected_customer = Unbound
    /\ recommendation = Unbound

\* C10 as stated: whenever cdnow.csv cannot be loaded, the loader reports the
\* error and returns None, no later stage runs and the run does not raise.
C10_LoadFailureAsStated ==
    (csv # "ok" /\ pc # "load") =>
        /\ transaction_df = <<NoneValue>>
        /\ error_shown
        /\ NoLaterStage
        /\ exception = "none"
        /\ pc \in {"check", "done"}

\* C10 as amended: when cdnow.csv is not found (FileNotFoundError), the loader
\* reports the error and returns None, no later stage runs and the run ends
\* normally, in the first run and in every rerun.
C10_NotFoundEndsQuietly ==
    (csv = "FileNotFoundError" /\ pc # "load") =>
        /\ transaction_df = <<NoneValue>>
        /\ error_shown
        /\ NoLaterStage
        /\ exception = "none"
        /\ pc \in {"check", "done"}

C10_Witness ==
    /\ csv = "FileNotFoundError"
    /\ pc = "done"
    /\ run = 2
    /\ transaction_df = <<NoneValue>>
    /\ error_shown

\* a customer whose summary contradicts itself: repeat purchases, no spend
Contradictory(row) == row.frequency > 0 /\ row.monetary_value <= 0

\* C2: whichever customer of a scored population is selected, the segment
\* shown is exactly one of HIGH, MEDIUM, LOW: HIGH iff the customer's value
\* is above the 80th percentile, LOW iff it is at most the 40th percentile,
\* MEDIUM otherwise (a value equal to a threshold falls in the lower segment),
\* and a finished segmentation has shown one.
C2_SegmentsPartition ==
    /\ (pc = "done" /\ clv_forecast # Unbound) => recommendation # Unbound
    /\ recommendation # Unbound =>
          LET col == clv_forecast[1]
              v == 5 * col[selected_customer[1]]
              high == clv_threshold_high(col)
              low == clv_threshold_low(col)
              label == recommendation[1]
          IN  /\ label \in {"HIGH", "MEDIUM", "LOW"}
              /\ (label = "HIGH") <=> (v > high)
              /\ (label = "LOW") <=> (v <= low)
              /\ (label = "MEDIUM") <=> (v <= high /\ v > low)

\* a segmented customer whose value equals the 80th percentile, above the 40th
C2_Witness ==
    /\ pc = "done"
    /\ recommendation = <<"MEDIUM">>
    /\ 5 * clv_forecast[1][selected_customer[1]] = clv_threshold_high(clv_forecast[1])

\* C3 as stated: the customers passed to the monetary fit are exactly those
\* whose frequency is not 0.
C3_FitSetAsStated ==
    ggf_ready_df # Unbound =>
        \A c \in DOMAIN rfm_df[1] :
            (c \in DOMAIN ggf_ready_df[1]) <=> (rfm_df[1][c].frequency # 0)

\* C3 as amended: the customers passed to the monetary fit are exactly those
\* with frequency > 0 and monetary_value > 0, so every customer with
\* frequency = 0 is excluded, and so is every customer with repeat purchases
\* whose monetary_value is not positive.
C3_FitSetPositiveOnly ==
    ggf_ready_df # Unbound =>
        /\ \A c \in DOMAIN rfm_df[1] :
              (c \in DOMAIN ggf_ready_df[1]) <=>
                  (rfm_df[1][c].frequency > 0 /\ rfm_df[1][c].monetary_value > 0)
        /\ ggf_model # Unbound =>
              DOMAIN ggf_model[1].fit_input = DOMAIN ggf_ready_df[1]

C3_Witness ==
    /\ ggf_model # Unbound
    /\ \E c \in DOMAIN rfm_df[1] :
          /\ rfm_df[1][c].frequency > 0
          /\ rfm_df[1][c].monetary_value = 0
          /\ c \notin DOMAIN ggf_model[1].fit_input
    /\ \E c \in DOMAIN rfm_df[1] : c \in DOMAIN ggf_model[1].fit_input

====
